---- MODULE Spec2Model ----
(***************************************************************************)
(* Eisenstein integers a + b*w (w a primitive cube root of unity), the     *)
(* rounded division built on the complex embedding, the Euclidean gcd and  *)
(* the auto-reduced fractions of src/eisenstein.py.                        *)
(*                                                                         *)
(* Floating point.  The only floating-point values the code branches on    *)
(* are (1) abs(b) > abs(a) in gcd, a comparison of square roots of two     *)
(* integer norms, which orders exactly as the norms do, and (2) the two    *)
(* arguments of round() in get_eisenstein_form.  Those two arguments are   *)
(* the (1, w)-coordinates p/N and q/N of the exact quotient, computed      *)
(* through sqrt(3) and a complex division, so they carry an error of a few *)
(* units in the last place.  Away from a half-integer that error cannot    *)
(* change the rounded value; at an exact half-integer it decides it (the   *)
(* code rounds the coordinate 1/2 to 1 in (-6-3w) // (-6) and to 0 in      *)
(* 1 // 2).  The model keeps the quotient as exact rationals and lets      *)
(* round() return either neighbour at an exact half-integer.               *)
(***************************************************************************)
EXTENDS Integers, FiniteSets

\* Bound on |a|, |b| of the Eisenstein integers given to the integer
\* operations and to gcd.
MaxCoef == 3

Coefs == (0 - MaxCoef)..MaxCoef

\* Bound on |a|, |b| of the third operand of the three-operand expressions.
MaxThird == 1

\* Bounds on the norm of the numerators and of the denominators given to
\* the EisensteinFraction constructor.
MaxNumNorm == 8

MaxDenNorm == 4

\* Bound on the norm of the numerators and denominators of the two fractions
\* the fraction operations are applied to.
MaxOpNorm == 6

\* class Eisenstein: the value a + b*w
Eisenstein(a, b) == [a |-> a, b |-> b]

Zero == Eisenstein(0, 0)

One == Eisenstein(1, 0)

Inputs == {Eisenstein(a, b) : a \in Coefs, b \in Coefs}

Thirds ==
    {Eisenstein(a, b) : a \in (0 - MaxThird)..MaxThird,
                        b \in (0 - MaxThird)..MaxThird}

\* Eisenstein.__add__
Add(x, y) == Eisenstein(x.a + y.a, x.b + y.b)

\* Eisenstein.__sub__
Sub(x, y) == Eisenstein(x.a - y.a, x.b - y.b)

\* A multiplication whose last term is b*c where the code has b*d.
MulWrongTerm(x, y) ==
    Eisenstein((x.a * y.a) - (x.b * y.b),
               (x.b * y.a) + (x.a * y.b) - (x.b * y.a))

\* Eisenstein.__mul__: (a+bw)(c+dw) = (ac-bd) + (bc+ad-bd)w
Mul(x, y) ==
    Eisenstein((x.a * y.a) - (x.b * y.b),
               (x.b * y.a) + (x.a * y.b) - (x.b * y.b))

\* Eisenstein.get_norm
get_norm(x) == (x.a * x.a) - (x.a * x.b) + (x.b * x.b)

\* The Eisenstein integers of norm at most m (|a|, |b| <= m for all of them).
NormBall(m) ==
    {x \in {Eisenstein(a, b) : a \in (0 - m)..m, b \in (0 - m)..m} :
        get_norm(x) <= m}

Numerators == NormBall(MaxNumNorm)

Denominators == NormBall(MaxDenNorm)

OpInputs == NormBall(MaxOpNorm)

\* abs(x) > abs(y): abs is sqrt of the norm, and sqrt is strictly increasing
\* on the integers the model reaches.
abs_gt(x, y) == get_norm(x) > get_norm(y)

\* Eisenstein.get_complex_form: the complex number re2/2 + i*im3*sqrt(3)/2
get_complex_form(x) == [re2 |-> (2 * x.a) - x.b, im3 |-> x.b]

\* Complex division u / v of two complex forms, v # 0: the exact value
\* (re + i*sqrt(3)*im) / den.
complex_div(u, v) ==
    [re  |-> (u.re2 * v.re2) + (3 * u.im3 * v.im3),
     im  |-> (u.im3 * v.re2) - (u.re2 * v.im3),
     den |-> (v.re2 * v.re2) + (3 * v.im3 * v.im3)]

\* A round() that truncates downwards, as int(math.floor(x)) would.
round_down(num, den) == {num \div den}

\* round(num/den), den > 0, of a double that carries rounding error: the
\* nearest integer, either neighbour when num/den is exactly a half-integer.
round(num, den) ==
    LET k == ((2 * num) + den) \div (2 * den)
    IN  IF ((2 * num) + den) % (2 * den) = 0 THEN {k - 1, k} ELSE {k}

\* get_eisenstein_form(var): a = round(x + y/sqrt(3)), b = round(2y/sqrt(3))
\* with x = re/den and y = sqrt(3)*im/den.
get_eisenstein_form(c) ==
    {Eisenstein(a, b) : a \in round(c.re + c.im, c.den),
                        b \in round(2 * c.im, c.den)}

\* Eisenstein.__floordiv__, other # 0 (complex division by zero raises)
floordiv(x, y) ==
    get_eisenstein_form(complex_div(get_complex_form(x), get_complex_form(y)))

\* A remainder that adds K*other back instead of subtracting it.
mod_plus(x, y) == {Add(x, Mul(K, y)) : K \in floordiv(x, y)}

\* Eisenstein.__mod__, other # 0: self - K * other
mod(x, y) == {Sub(x, Mul(K, y)) : K \in floordiv(x, y)}

\* gcd, lines 120-124: the values the loop entered with (a, b) can return
RECURSIVE gcd_loop(_, _)
gcd_loop(a, b) ==
    IF b = Zero THEN {a} ELSE UNION {gcd_loop(b, r) : r \in mod(a, b)}

\* gcd(a, b): the swap of lines 118-119, then the loop
gcd(a, b) == IF abs_gt(b, a) THEN gcd_loop(b, a) ELSE gcd_loop(a, b)

\* A constructor that reduces the numerator and forgets the denominator.
EisensteinFractionKeepD(numerator, denominator) ==
    UNION {IF gcd_val # Zero
             THEN {[n |-> qn, d |-> denominator] :
                      qn \in floordiv(numerator, gcd_val)}
             ELSE {[n |-> numerator, d |-> denominator]} :
           gcd_val \in gcd(numerator, denominator)}

\* EisensteinFraction.__init__ on two Eisenstein values (an int argument is
\* first made Eisenstein(int, 0)): the stored pairs (n, d) it can produce
EisensteinFraction(numerator, denominator) ==
    UNION {IF gcd_val # Zero
             THEN {[n |-> qn, d |-> qd] :
                      qn \in floordiv(numerator, gcd_val),
                      qd \in floordiv(denominator, gcd_val)}
             ELSE {[n |-> numerator, d |-> denominator]} :
           gcd_val \in gcd(numerator, denominator)}

\* EisensteinFraction.__add__
frac_add(p, q) ==
    EisensteinFraction(Add(Mul(p.n, q.d), Mul(q.n, p.d)), Mul(p.d, q.d))

\* EisensteinFraction.__sub__
frac_sub(p, q) ==
    EisensteinFraction(Sub(Mul(p.n, q.d), Mul(q.n, p.d)), Mul(p.d, q.d))

\* EisensteinFraction.__mul__
frac_mul(p, q) == EisensteinFraction(Mul(p.n, q.n), Mul(p.d, q.d))

\* inverse(e): (EF(a - b, N) - EF(Eisenstein(0, -b), N)) * EF(e.d, 1)
inverse(e) ==
    LET a == e.n.a
        b == e.n.b
        N == Eisenstein((a * a) - (a * b) + (b * b), 0)
    IN  UNION {UNION {UNION {frac_mul(s, t) :
                                t \in EisensteinFraction(e.d, One)} :
                         s \in frac_sub(f1, f2)} :
               f1 \in EisensteinFraction(Eisenstein(a - b, 0), N),
               f2 \in EisensteinFraction(Eisenstein(0, 0 - b), N)}

\* EisensteinFraction.__truediv__: self * inverse(other)
truediv(p, q) == UNION {frac_mul(p, i) : i \in inverse(q)}

\* An equality that compares the numerators twice and never the denominators.
frac_eq_numerators(p, q) == p.n = q.n /\ p.n = q.n

\* EisensteinFraction.__eq__
frac_eq(p, q) == p.n = q.n /\ p.d = q.d

VARIABLES
    ex, ey, ez, \* integer operations: the operands
    eop,        \* integer operations: the operation applied, "none" before
    er,         \* integer operations: the value returned
    gx, gy,     \* gcd: the arguments of the call
    ga, gb,     \* gcd: the locals a and b
    gpc,        \* gcd: "idle", "loop" (at the while), "done" (returned)
    gsteps,     \* gcd: remainder steps (line 123) taken by the call
    gres,       \* gcd: the value returned
    pin, p,     \* fractions: the first constructor call's arguments and result
    qin, q,     \* fractions: the second constructor call's arguments and result
    fpc,        \* fractions: "start", "one", "two" fractions built, "done"
    fop,        \* fractions: the operation applied to p and q, "none" before
    fr,         \* fractions: the value the operation returned
    raised      \* the exception the last call raised, "none" if it returned

evars == <<ex, ey, ez, eop, er>>

gvars == <<gx, gy, ga, gb, gpc, gsteps, gres>>

fvars == <<pin, p, qin, q, fpc, fop, fr>>

vars == <<evars, gvars, fvars, raised>>

\* EisensteinFraction(): the defaults numerator=0, denominator=1
DefaultFraction == [n |-> Zero, d |-> One]

\* No integer operation applied yet.
IdleInt ==
    /\ ex = Zero /\ ey = Zero /\ ez = Zero /\ eop = "none" /\ er = Zero

\* No gcd call made yet.
IdleGcd ==
    /\ gx = Zero /\ gy = Zero /\ ga = Zero /\ gb = Zero
    /\ gpc = "idle" /\ gsteps = 0 /\ gres = Zero

\* No fraction built yet.
IdleFrac ==
    /\ pin = DefaultFraction /\ p = DefaultFraction
    /\ qin = DefaultFraction /\ q = DefaultFraction
    /\ fpc = "start" /\ fop = "none" /\ fr = DefaultFraction

(***************************************************************************)
(* The integer operations, each applied to operands drawn at Init.         *)
(***************************************************************************)
InitInt ==
    /\ ex \in Inputs /\ ey \in Inputs /\ ez \in Thirds
    /\ eop = "none" /\ er = Zero
    /\ IdleGcd
    /\ IdleFrac
    /\ raised = "none"

\* x + y
e_add ==
    /\ eop = "none"
    /\ eop' = "add" /\ er' = Add(ex, ey)
    /\ UNCHANGED <<ex, ey, ez, gvars, fvars, raised>>

\* x + y + z, evaluated left to right
e_add3 ==
    /\ eop = "none"
    /\ eop' = "add3" /\ er' = Add(Add(ex, ey), ez)
    /\ UNCHANGED <<ex, ey, ez, gvars, fvars, raised>>

\* x - y
e_sub ==
    /\ eop = "none"
    /\ eop' = "sub" /\ er' = Sub(ex, ey)
    /\ UNCHANGED <<ex, ey, ez, gvars, fvars, raised>>

\* x * y
e_mul ==
    /\ eop = "none"
    /\ eop' = "mul" /\ er' = Mul(ex, ey)
    /\ UNCHANGED <<ex, ey, ez, gvars, fvars, raised>>

\* x * y * z, evaluated left to right (test(): 2 * E1 * 2)
e_mul3 ==
    /\ eop = "none"
    /\ eop' = "mul3" /\ er' = Mul(Mul(ex, ey), ez)
    /\ UNCHANGED <<ex, ey, ez, gvars, fvars, raised>>

\* x // y; the complex division raises ZeroDivisionError when y is zero
e_floordiv ==
    /\ eop = "none"
    /\ eop' = "floordiv"
    /\ IF ey = Zero
          THEN raised' = "ZeroDivisionError" /\ UNCHANGED er
          ELSE er' \in floordiv(ex, ey) /\ UNCHANGED raised
    /\ UNCHANGED <<ex, ey, ez, gvars, fvars>>

\* x % y; the complex division raises ZeroDivisionError when y is zero
e_mod ==
    /\ eop = "none"
    /\ eop' = "mod"
    /\ IF ey = Zero
          THEN raised' = "ZeroDivisionError" /\ UNCHANGED er
          ELSE er' \in mod(ex, ey) /\ UNCHANGED raised
    /\ UNCHANGED <<ex, ey, ez, gvars, fvars>>

NextInt ==
    \/ e_add
    \/ e_add3
    \/ e_sub
    \/ e_mul
    \/ e_mul3
    \/ e_floordiv
    \/ e_mod

SpecInt == InitInt /\ [][NextInt]_vars

(***************************************************************************)
(* gcd, one step of its loop at a time.                                    *)
(***************************************************************************)
InitGcd ==
    /\ IdleInt
    /\ IdleGcd
    /\ IdleFrac
    /\ raised = "none"

\* gcd(a, b), entry: the swap of lines 118-119
gcd_call ==
    /\ gpc = "idle"
    /\ \E x \in Inputs, y \in Inputs :
          /\ gx' = x /\ gy' = y
          /\ IF abs_gt(y, x) THEN ga' = y /\ gb' = x ELSE ga' = x /\ gb' = y
    /\ gpc' = "loop"
    /\ gsteps' = 0
    /\ UNCHANGED <<gres, evars, fvars, raised>>

\* A loop body that forgets to move b into a: b = a % b.
gcd_step_keep_a ==
    /\ gpc = "loop"
    /\ gb # Zero
    /\ \E r \in mod(ga, gb) : ga' = ga /\ gb' = r
    /\ gsteps' = gsteps + 1
    /\ UNCHANGED <<gx, gy, gpc, gres, evars, fvars, raised>>

\* gcd, line 123: a, b = b, a % b   (b is not the zero element)
gcd_step ==
    /\ gpc = "loop"
    /\ gb # Zero
    /\ \E r \in mod(ga, gb) : ga' = gb /\ gb' = r
    /\ gsteps' = gsteps + 1
    /\ UNCHANGED <<gx, gy, gpc, gres, evars, fvars, raised>>

\* A return that hands back b instead of a.
gcd_return_b ==
    /\ gpc = "loop"
    /\ gb = Zero
    /\ gres' = gb
    /\ gpc' = "done"
    /\ UNCHANGED <<gx, gy, ga, gb, gsteps, evars, fvars, raised>>

\* gcd, lines 121-122: if b == Eisenstein(0, 0): return a
gcd_return ==
    /\ gpc = "loop"
    /\ gb = Zero
    /\ gres' = ga
    /\ gpc' = "done"
    /\ UNCHANGED <<gx, gy, ga, gb, gsteps, evars, fvars, raised>>

NextGcd ==
    \/ gcd_call
    \/ gcd_step
    \/ gcd_return

SpecGcd == InitGcd /\ [][NextGcd]_vars

\* gcd is an ordinary synchronous function: once called, it runs its loop
\* until it returns.
SpecGcdFair == SpecGcd /\ WF_vars(gcd_step) /\ WF_vars(gcd_return)

(***************************************************************************)
(* The constructor: two fractions built one after the other.               *)
(***************************************************************************)
InitNew ==
    /\ IdleInt
    /\ IdleGcd
    /\ IdleFrac
    /\ raised = "none"

\* p = EisensteinFraction(n, d)
f_new_p ==
    /\ fpc = "start"
    /\ \E n \in Numerators, d \in Denominators :
          /\ pin' = [n |-> n, d |-> d]
          /\ p' \in EisensteinFraction(n, d)
    /\ fpc' = "one"
    /\ UNCHANGED <<qin, q, fop, fr, evars, gvars, raised>>

\* q = EisensteinFraction(n, d); the constructor is a function, so the
\* arguments that built p build the same pair again
f_new_q ==
    /\ fpc = "one"
    /\ \E n \in Numerators, d \in Denominators :
          /\ qin' = [n |-> n, d |-> d]
          /\ IF qin' = pin THEN q' = p ELSE q' \in EisensteinFraction(n, d)
    /\ fpc' = "two"
    /\ UNCHANGED <<pin, p, fop, fr, evars, gvars, raised>>

NextNew ==
    \/ f_new_p
    \/ f_new_q

SpecNew == InitNew /\ [][NextNew]_vars

(***************************************************************************)
(* The fraction operations, each applied to two fractions the constructor  *)
(* has built.                                                              *)
(***************************************************************************)
\* The fractions the constructor builds from the small arguments.
OpFractions ==
    UNION {EisensteinFraction(n, d) : n \in OpInputs, d \in OpInputs}

InitOps ==
    /\ IdleInt
    /\ IdleGcd
    /\ pin = DefaultFraction /\ qin = DefaultFraction
    /\ p \in OpFractions
    /\ q \in OpFractions
    /\ fpc = "two" /\ fop = "none" /\ fr = DefaultFraction
    /\ raised = "none"

\* p + q
f_add ==
    /\ fpc = "two"
    /\ fr' \in frac_add(p, q)
    /\ fop' = "add" /\ fpc' = "done"
    /\ UNCHANGED <<pin, p, qin, q, evars, gvars, raised>>

\* p - q
f_sub ==
    /\ fpc = "two"
    /\ fr' \in frac_sub(p, q)
    /\ fop' = "sub" /\ fpc' = "done"
    /\ UNCHANGED <<pin, p, qin, q, evars, gvars, raised>>

\* p * q
f_mul ==
    /\ fpc = "two"
    /\ fr' \in frac_mul(p, q)
    /\ fop' = "mul" /\ fpc' = "done"
    /\ UNCHANGED <<pin, p, qin, q, evars, gvars, raised>>

\* p / q
f_truediv ==
    /\ fpc = "two"
    /\ fr' \in truediv(p, q)
    /\ fop' = "truediv" /\ fpc' = "done"
    /\ UNCHANGED <<pin, p, qin, q, evars, gvars, raised>>

\* inverse(q)
f_inverse ==
    /\ fpc = "two"
    /\ fr' \in inverse(q)
    /\ fop' = "inverse" /\ fpc' = "done"
    /\ UNCHANGED <<pin, p, qin, q, evars, gvars, raised>>

NextOps ==
    \/ f_add
    \/ f_sub
    \/ f_mul
    \/ f_truediv
    \/ f_inverse

SpecOps == InitOps /\ [][NextOps]_vars

(***************************************************************************)
(* The claims.                                                             *)
(***************************************************************************)
OneFraction == [n |-> One, d |-> One]

\* C1: for every fraction e with nonzero numerator and denominator,
\* e * inverse(e), which is what e / e computes, is EisensteinFraction(1, 1):
\* stored numerator (1, 0) and stored denominator (1, 0).
InverseTimesSelfIsOne ==
    (fop = "truediv" /\ frac_eq(p, q) /\ q.n # Zero /\ q.d # Zero)
        => frac_eq(fr, OneFraction)

\* C2: for nonzero x and y, the value g returned by gcd(x, y) divides both:
\* x % g and y % g have norm 0.
GcdDividesBoth ==
    (gpc = "done" /\ gx # Zero /\ gy # Zero)
        => /\ gres # Zero
           /\ \A r \in mod(gx, gres) : get_norm(r) = 0
           /\ \A r \in mod(gy, gres) : get_norm(r) = 0

\* The loop taken step by step returns one of the values of gcd(x, y).
GcdStepsAgree == gpc = "done" => gres \in gcd(gx, gy)

\* C2 witness: a call on two nonzero values that took remainder steps and
\* returned a common divisor that is not a unit.
GcdDividesBothWitness ==
    /\ gpc = "done" /\ gx # Zero /\ gy # Zero
    /\ gsteps >= 2
    /\ get_norm(gres) > 1

\* The pair (n, d) has only units as gcd.
Reduced(f) == \A g \in gcd(f.n, f.d) : get_norm(g) = 1

\* C3: every fraction the constructor produces from a nonzero denominator,
\* the results of add, subtract and multiply included, stores a pair (n, d)
\* whose gcd has norm 1.
ReducedForm ==
    /\ p.d # Zero => Reduced(p)
    /\ q.d # Zero => Reduced(q)
    /\ (fop \in {"add", "sub", "mul"} /\ p.d # Zero /\ q.d # Zero)
          => Reduced(fr)

\* C3 witness: a sum whose unreduced numerator and denominator shared a
\* factor that is not a unit, stored with a denominator that is not a unit.
ReducedFormWitness ==
    /\ fop = "add" /\ p.d # Zero /\ q.d # Zero
    /\ get_norm(fr.d) > 1
    /\ \E g \in gcd(Add(Mul(p.n, q.d), Mul(q.n, p.d)), Mul(p.d, q.d)) :
          get_norm(g) > 1

\* C4: constructing a fraction whose denominator is the zero element raises
\* a division-by-zero error, whatever the numerator.
ZeroDenominatorRaises ==
    (fpc # "start" /\ pin.d = Zero) => raised = "ZeroDivisionError"

\* C5: inverse(e) raises a division-by-zero error when the numerator of e
\* is the zero element, and so does p / e.  Stated for the e with a nonzero
\* denominator, the zero fractions that are fractions under every claim.
InverseOfZeroRaises ==
    (fop \in {"inverse", "truediv"} /\ q.n = Zero /\ q.d # Zero)
        => raised = "ZeroDivisionError"

\* The lattice points around c, c included.
Neighbours(c) ==
    {Eisenstein(c.a + i, c.b + j) : i \in {-1, 0, 1}, j \in {-1, 0, 1}}

\* The remainder x - c*y that the quotient c leaves.
Rest(x, y, c) == Sub(x, Mul(c, y))

\* Neither (1, w)-coordinate of the exact quotient x/y is a half-integer:
\* the quotients for which rounding error cannot change what round() returns.
RoundingDetermined(x, y) ==
    LET c == complex_div(get_complex_form(x), get_complex_form(y))
    IN  /\ Cardinality(round(c.re + c.im, c.den)) = 1
        /\ Cardinality(round(2 * c.im, c.den)) = 1

\* C6 as claimed: q = x // y is a closest lattice point to x/y: no
\* Eisenstein integer c has norm(x - c*y) < norm(x - q*y).  Stated for the
\* quotients whose rounding is determined, so that what refutes it is the
\* rounding rule and not the error of the floating-point evaluation.
QuotientIsNearest ==
    (eop = "floordiv" /\ raised = "none" /\ RoundingDetermined(ex, ey))
        => \A c \in Neighbours(er) :
              get_norm(Rest(ex, ey, c)) >= get_norm(Rest(ex, ey, er))

\* C6 as amended: each (1, w)-coordinate of q = x // y is within 1/2 of the
\* same coordinate of the exact quotient x/y, and so the remainder has
\* norm(x - q*y) <= 3/4 * norm(y).
QuotientIsRounded ==
    (eop = "floordiv" /\ raised = "none")
        => LET c == complex_div(get_complex_form(ex), get_complex_form(ey))
               da == (2 * (c.re + c.im)) - (2 * er.a * c.den)
               db == (4 * c.im) - (2 * er.b * c.den)
           IN  /\ da <= c.den /\ 0 - da <= c.den
               /\ db <= c.den /\ 0 - db <= c.den
               /\ 4 * get_norm(Rest(ex, ey, er)) <= 3 * get_norm(ey)

\* C6 witness: a quotient that is not exact.
QuotientIsRoundedWitness ==
    /\ eop = "floordiv" /\ raised = "none"
    /\ get_norm(Rest(ex, ey, er)) > 0
    /\ ex.b # 0 /\ ey.b # 0

\* C7: add and multiply are commutative and associative, and multiply is
\* (x.a*y.a - x.b*y.b, x.b*y.a + x.a*y.b - x.b*y.b).
AddMulCommutativeAssociative ==
    /\ eop = "add" => er = Add(ey, ex)
    /\ eop = "add3" => er = Add(ex, Add(ey, ez))
    /\ eop = "mul" => er = Mul(ey, ex)
    /\ eop = "mul" => /\ er.a = (ex.a * ey.a) - (ex.b * ey.b)
                      /\ er.b = (ex.b * ey.a) + (ex.a * ey.b) - (ex.b * ey.b)
    /\ eop = "mul3" => er = Mul(ex, Mul(ey, ez))

\* C7 witness: a product of three values, none of them an ordinary integer.
AddMulWitness ==
    /\ eop = "mul3"
    /\ ex.b # 0 /\ ey.b # 0 /\ ez.b # 0
    /\ er.b # 0

\* C8: when the second operand is the zero element after the initial swap,
\* both operands being zero included, gcd returns the first operand without
\* taking a remainder step.
DegenerateGcd ==
    LET first  == IF abs_gt(gy, gx) THEN gy ELSE gx
        second == IF abs_gt(gy, gx) THEN gx ELSE gy
    IN  (gpc = "done" /\ second = Zero) => (gsteps = 0 /\ gres = first)

\* C8 witness: gcd of the zero element with itself has returned.
DegenerateGcdWitness == gpc = "done" /\ gx = Zero /\ gy = Zero

\* C9: every remainder step strictly lowers the norm of the second operand,
\* and every call of gcd returns.
GcdTerminates ==
    /\ [][(gpc = "loop" /\ gsteps' = gsteps + 1)
            => get_norm(gb') < get_norm(gb)]_vars
    /\ (gpc = "loop") ~> (gpc = "done")

\* C9 witness: a call that returned after three remainder steps or more.
GcdTerminatesWitness == gpc = "done" /\ gsteps >= 3

\* n1/d1 and n2/d2 are the same value of the field: n1*d2 = n2*d1.
SameValue(f, g) == Mul(f.n, g.d) = Mul(g.n, f.d)

\* C10 as claimed: two fractions built from nonzero denominators are
\* structurally equal exactly when n1*d2 = n2*d1.
EqualIffSameValue ==
    (fpc = "two" /\ pin.d # Zero /\ qin.d # Zero)
        => (frac_eq(p, q) <=> SameValue(pin, qin))

\* C10 as amended: two fractions built from nonzero denominators that are
\* structurally equal were built from arguments with n1*d2 = n2*d1.
EqualImpliesSameValue ==
    (fpc = "two" /\ pin.d # Zero /\ qin.d # Zero)
        => (frac_eq(p, q) => SameValue(pin, qin))

\* C10 witness: two different argument pairs stored as the same pair, with
\* a denominator that is not a unit.
EqualImpliesSameValueWitness ==
    /\ fpc = "two" /\ pin.d # Zero /\ qin.d # Zero
    /\ pin # qin
    /\ frac_eq(p, q)
    /\ get_norm(p.d) > 1

====
